---- MODULE Spec2Model ----
(***************************************************************************)
(* GeoCleanr: the coordinate validation and repair pipeline.               *)
(*                                                                         *)
(* GeometryValidator.validate / is_valid   (src/src/geocleanr/validator.py)*)
(* CoordinateFixer.fix_record / fix_all / validate_after_fix               *)
(*                                          (src/src/geocleanr/fixer.py)   *)
(*                                                                         *)
(* Python values are tagged records [k, n, s]:                             *)
(*   k = "none"    None (also what dict.get gives for an absent key)       *)
(*   k = "num"     a finite int or float; n is the value in HALVES, so     *)
(*                 Deg(90) = 180 stands for 90 and n = 25 for 12.5         *)
(*   k = "nan"     the float NaN (every ordered comparison is false,       *)
(*                 NaN != NaN is true)                                     *)
(*   k = "bigint"  an int too large for float(): float() raises            *)
(*                 OverflowError, which neither module catches             *)
(*   k = "str"     text; s is its sequence of characters                   *)
(*   k = "list"    a non-scalar value: float() raises TypeError            *)
(*   k = "int"     a plain int used as a configuration value (precision)   *)
(***************************************************************************)
EXTENDS Integers, Sequences, FiniteSets, TLC

VARIABLES
    fixer,      \* the CoordinateFixer's attributes (self.*), validator included
    validator,  \* a caller-held GeometryValidator's attributes
    rows,       \* the caller's sequence of records
    out         \* the last call: its name, its argument and what it returned

vars == <<fixer, validator, rows, out>>

---------------------------------------------------------------------------
(* Values *)

V(k, n, s) == [k |-> k, n |-> n, s |-> s]

None == V("none", 0, <<>>)

NaN == V("nan", 0, <<>>)

BigInt == V("bigint", 0, <<>>)

List == V("list", 0, <<>>)

Num(n) == V("num", n, <<>>)

Str(s) == V("str", 0, s)

PInt(n) == V("int", n, <<>>)

\* A whole number of degrees, in halves.
Deg(d) == Num(2 * d)

IsFloat(v) == v.k \in {"num", "nan"}

\* Python's ordered comparisons on floats: false as soon as one side is NaN.
FLe(a, b) == a.k = "num" /\ b.k = "num" /\ a.n <= b.n

FLt(a, b) == a.k = "num" /\ b.k = "num" /\ a.n < b.n

FGt(a, b) == FLt(b, a)

\* Python's == between the values of the model: NaN equals nothing, a number
\* never equals text, numbers compare by value.
PyEq(a, b) == a.k # "nan" /\ b.k # "nan" /\ a = b

PyNe(a, b) == ~PyEq(a, b)

\* abs() and unary minus on a float.
FAbs(v) == IF v.k = "num" THEN Num(IF v.n < 0 THEN -v.n ELSE v.n) ELSE v

FNeg(v) == IF v.k = "num" THEN Num(-v.n) ELSE v

\* The builtins max(a, b) and min(a, b): the first argument unless the second
\* compares greater (smaller), so a NaN first argument is returned as is.
PyMax(a, b) == IF FGt(b, a) THEN b ELSE a

PyMin(a, b) == IF FLt(b, a) THEN b ELSE a

---------------------------------------------------------------------------
(* Mappings (dict) *)

EmptyDict == [x \in {} |-> None]

\* dict.get(key): None for an absent key.
Get(d, key) == IF key \in DOMAIN d THEN d[key] ELSE None

\* d[key] = value
Put(d, key, value) == [x \in (DOMAIN d) \cup {key} |-> IF x = key THEN value ELSE d[x]]

---------------------------------------------------------------------------
(* Text *)

Digits == <<"0", "1", "2", "3", "4", "5", "6", "7", "8", "9">>

IsDigit(c) == \E i \in 1..10 : Digits[i] = c

DigitVal(c) == (CHOOSE i \in 1..10 : Digits[i] = c) - 1

IsSpace(c) == c = " "

\* str.upper() on one character of the modelled alphabet.
Upper(c) ==
    CASE c = "n" -> "N"
      [] c = "s" -> "S"
      [] c = "e" -> "E"
      [] c = "w" -> "W"
      [] c = "a" -> "A"
      [] c = "b" -> "B"
      [] c = "c" -> "C"
      [] OTHER -> c

Front(s) == SubSeq(s, 1, Len(s) - 1)

Last(s) == s[Len(s)]

RECURSIVE LStrip(_)
LStrip(s) == IF s # <<>> /\ IsSpace(Head(s)) THEN LStrip(Tail(s)) ELSE s

RECURSIVE RStrip(_)
RStrip(s) == IF s # <<>> /\ IsSpace(Last(s)) THEN RStrip(Front(s)) ELSE s

\* str.strip()
Strip(s) == RStrip(LStrip(s))

\* str.replace(old, new) for single characters.
Replace(s, old, new) == [i \in 1..Len(s) |-> IF s[i] = old THEN new ELSE s[i]]

RECURSIVE DigitsValue(_)
DigitsValue(s) == IF s = <<>> THEN 0 ELSE 10 * DigitsValue(Front(s)) + DigitVal(Last(s))

RECURSIVE Pow10(_)
Pow10(k) == IF k = 0 THEN 1 ELSE 10 * Pow10(k - 1)

AllDigits(s) == \A i \in 1..Len(s) : IsDigit(s[i])

DotPositions(s) == {i \in 1..Len(s) : s[i] = "."}

ParseFailed == [ok |-> FALSE, v |-> None]

\* The digits before and after the point, as a number of halves.
ParseParts(ip, fp, neg) ==
    LET unit == Pow10(Len(fp))
        scaled == 2 * (DigitsValue(ip) * unit + DigitsValue(fp))
    IN  IF AllDigits(ip) /\ AllDigits(fp) /\ Len(ip) + Len(fp) >= 1 /\ scaled % unit = 0
        THEN [ok |-> TRUE, v |-> Num(IF neg THEN -(scaled \div unit) ELSE scaled \div unit)]
        ELSE ParseFailed

ParseDecimal(body, neg, dots) ==
    LET dot == IF dots = {} THEN Len(body) + 1 ELSE CHOOSE i \in dots : TRUE
    IN  IF Cardinality(dots) <= 1
        THEN ParseParts(SubSeq(body, 1, dot - 1), SubSeq(body, dot + 1, Len(body)), neg)
        ELSE ParseFailed

ParseBody(body, neg) ==
    IF [i \in 1..Len(body) |-> Upper(body[i])] = <<"N", "A", "N">>
    THEN [ok |-> TRUE, v |-> NaN]
    ELSE ParseDecimal(body, neg, DotPositions(body))

ParseSigned(s) ==
    IF s # <<>> /\ Head(s) \in {"+", "-"}
    THEN ParseBody(Tail(s), Head(s) = "-")
    ELSE ParseBody(s, FALSE)

\* float(text): surrounding whitespace is ignored, then an optional sign and
\* either "nan" (any case) or decimal digits with at most one point and at
\* least one digit.  [ok, v]: ok = FALSE is Python's ValueError.  (Exponents,
\* underscores and "inf" lie outside the alphabet of the modelled texts; the
\* fraction has to be a whole number of halves.)
ParseFloat(text) == ParseSigned(Strip(text))

FloatOfText(p) ==
    IF p.ok THEN [st |-> "ok", v |-> p.v] ELSE [st |-> "value_error", v |-> None]

\* float(value) for any value: "ok" on success, "value_error" for ValueError
\* or TypeError (text that does not parse, None, a list), "overflow" for the
\* OverflowError of an int beyond the float range.
Float(value) ==
    CASE value.k \in {"num", "nan"} -> [st |-> "ok", v |-> value]
      [] value.k = "str" -> FloatOfText(ParseFloat(value.s))
      [] value.k = "bigint" -> [st |-> "overflow", v |-> None]
      [] OTHER -> [st |-> "value_error", v |-> None]

---------------------------------------------------------------------------
(* CoordinateFixer helpers *)

Compass == {"N", "S", "E", "W"}

\* Lines 147-153: the final float conversion, given its outcome.
coerce_result(original, fixes, number) ==
    CASE number.st = "ok" ->
            [raised |-> FALSE, value |-> number.v, notes |-> fixes,
             changed |-> PyNe(number.v, original)]
      [] number.st = "value_error" ->
            [raised |-> FALSE, value |-> None,
             notes |-> Append(fixes, "coerce_failed"), changed |-> FALSE]
      [] OTHER ->
            [raised |-> TRUE, value |-> None, notes |-> fixes, changed |-> FALSE]

\* Lines 130-143: the compass letter is dropped and the sign set, unless the
\* rest does not parse (then the rest stays text).
coerce_compass(direction, cleaned, parsed) ==
    IF parsed.ok
    THEN IF direction \in {"S", "W"} THEN FNeg(FAbs(parsed.v)) ELSE FAbs(parsed.v)
    ELSE Str(cleaned)

\* Lines 127-146, for text already stripped and with its commas replaced.
coerce_text(stripped) ==
    IF stripped # <<>> /\ Upper(Last(stripped)) \in Compass
    THEN coerce_compass(Upper(Last(stripped)), Front(stripped), ParseFloat(Front(stripped)))
    ELSE Str(stripped)

\* _coerce_value: [raised, value, notes, changed].  raised is the
\* OverflowError that float() lets through the (TypeError, ValueError) handler.
coerce_value(value) ==
    IF value = None
    THEN [raised |-> FALSE, value |-> None, notes |-> <<>>, changed |-> FALSE]
    ELSE IF value.k = "str"
         THEN coerce_result(value, <<"coerced_from_string">>,
                            Float(coerce_text(Replace(Strip(value.s), ",", "."))))
         ELSE coerce_result(value, <<>>, Float(value))

\* A variant of _looks_swapped without the upper limit on |lat|.
looks_swapped_uncapped(lat, lon) ==
    /\ FGt(FAbs(lat), Deg(90))
    /\ FLe(FAbs(lon), Deg(90))

\* _looks_swapped
looks_swapped(lat, lon) ==
    /\ FGt(FAbs(lat), Deg(90))
    /\ FLe(FAbs(lat), Deg(180))
    /\ FLe(FAbs(lon), Deg(90))

\* A variant of _wrap_longitude that reduces modulo 360 without the shift
\* by 180.
wrap_longitude_unshifted(lon) ==
    IF FLe(Deg(-180), lon) /\ FLe(lon, Deg(180))
    THEN <<lon, FALSE>>
    ELSE IF FLe(Deg(-360), lon) /\ FLe(lon, Deg(360))
         THEN <<Num(lon.n % Deg(360).n), TRUE>>
         ELSE <<lon, FALSE>>

\* _wrap_longitude: <<longitude, wrapped>>
wrap_longitude(lon) ==
    IF FLe(Deg(-180), lon) /\ FLe(lon, Deg(180))
    THEN <<lon, FALSE>>
    ELSE IF FLe(Deg(-360), lon) /\ FLe(lon, Deg(360))
         THEN <<Num(((lon.n + Deg(180).n) % Deg(360).n) - Deg(180).n), TRUE>>
         ELSE <<lon, FALSE>>

\* A variant of _handle_outlier that compares the signed value, not its
\* magnitude.
handle_outlier_signed(self, value, fallback_value) ==
    IF self.max_abs = None
    THEN <<value, FALSE>>
    ELSE IF FGt(value, self.max_abs)
         THEN <<fallback_value, TRUE>>
         ELSE <<value, FALSE>>

\* _handle_outlier: <<value, replaced>>
handle_outlier(self, value, fallback_value) ==
    IF self.max_abs = None
    THEN <<value, FALSE>>
    ELSE IF FGt(FAbs(value), self.max_abs)
         THEN <<fallback_value, TRUE>>
         ELSE <<value, FALSE>>

\* _clip
clip(value, lower, upper) == PyMin(PyMax(value, lower), upper)

---------------------------------------------------------------------------
(* CoordinateFixer.fix_record                                              *)
(*                                                                         *)
(* The mappings the call touches live in a small heap (a sequence of       *)
(* mappings indexed by address): address 1 is the caller's record, dict(x) *)
(* allocates a new mapping, and item assignment writes to an address.      *)

\* A variant of DictCopy that hands back the mapping itself instead of a copy.
DictAlias(heap, addr) == [heap |-> heap, addr |-> addr]

\* dict(mapping): a new mapping with the same items.
DictCopy(heap, addr) == [heap |-> Append(heap, heap[addr]), addr |-> Len(heap) + 1]

\* heap[addr][key] = value
SetItem(heap, addr, key, value) == [heap EXCEPT ![addr] = Put(@, key, value)]

\* FixResult plus what the call did to its caller: raised (the exception that
\* left fix_record), addr (the identity of the returned record) and caller
\* (the caller's mapping as the call leaves it).
FixResult(heap, addr, fixes, changes) ==
    [raised |-> FALSE, record |-> heap[addr], addr |-> addr,
     fixes |-> fixes, changes |-> changes, caller |-> heap[1]]

Raised(heap) ==
    [raised |-> TRUE, record |-> EmptyDict, addr |-> 0,
     fixes |-> <<>>, changes |-> EmptyDict, caller |-> heap[1]]

\* changes[key] = value, when the step fired.
PutIf(fired, d, key, value) == IF fired THEN Put(d, key, value) ELSE d

\* fixes.append(code), when the step fired.
AppendIf(fired, fixes, code) == IF fired THEN Append(fixes, code) ELSE fixes

\* Lines 109-111: the write-back and the returned copy.
fix_record_return(self, heap, mutable, lat, lon, fixes, changes) ==
    LET ret == DictCopy(SetItem(SetItem(heap, mutable, self.lat_field, lat),
                                mutable, self.lon_field, lon),
                        mutable)
    IN  FixResult(ret.heap, ret.addr, fixes, changes)

\* A variant of the clip step that records the longitude's code before the
\* latitude's.
fix_record_clip_lon_first(self, heap, mutable, lat, lon, fixes, changes) ==
    LET clipped_lat == clip(lat, Deg(-90), Deg(90))
        clipped_lon == clip(lon, Deg(-180), Deg(180))
        latHit == self.clip /\ PyNe(clipped_lat, lat)
        lonHit == self.clip /\ PyNe(clipped_lon, lon)
    IN  fix_record_return(self, heap, mutable,
            IF self.clip THEN clipped_lat ELSE lat,
            IF self.clip THEN clipped_lon ELSE lon,
            AppendIf(latHit, AppendIf(lonHit, fixes, "lon_clipped"), "lat_clipped"),
            PutIf(lonHit,
                  PutIf(latHit, changes, self.lat_field, <<lat, clipped_lat>>),
                  self.lon_field, <<lon, clipped_lon>>))

\* Lines 97-107: clipping, when enabled.
fix_record_clip(self, heap, mutable, lat, lon, fixes, changes) ==
    LET clipped_lat == clip(lat, Deg(-90), Deg(90))
        clipped_lon == clip(lon, Deg(-180), Deg(180))
        latHit == self.clip /\ PyNe(clipped_lat, lat)
        lonHit == self.clip /\ PyNe(clipped_lon, lon)
    IN  fix_record_return(self, heap, mutable,
            IF self.clip THEN clipped_lat ELSE lat,
            IF self.clip THEN clipped_lon ELSE lon,
            AppendIf(lonHit, AppendIf(latHit, fixes, "lat_clipped"), "lon_clipped"),
            PutIf(lonHit,
                  PutIf(latHit, changes, self.lat_field, <<lat, clipped_lat>>),
                  self.lon_field, <<lon, clipped_lon>>))

\* Lines 87-95: the outlier guard.
fix_record_outlier(self, heap, mutable, lat, lon, fixes, changes) ==
    LET ol == handle_outlier(self, lat, self.fallback[1])
        oo == handle_outlier(self, lon, self.fallback[2])
    IN  fix_record_clip(self, heap, mutable, ol[1], oo[1],
            AppendIf(oo[2], AppendIf(ol[2], fixes, "lat_outlier"), "lon_outlier"),
            PutIf(oo[2],
                  PutIf(ol[2], changes, self.lat_field,
                        <<Get(heap[1], self.lat_field), ol[1]>>),
                  self.lon_field, <<Get(heap[1], self.lon_field), oo[1]>>))

\* A variant of the wrap step that leaves the changes map as it was.
fix_record_wrap_unrecorded(self, heap, mutable, lat, lon, fixes, changes) ==
    LET w == wrap_longitude(lon)
        wrapped_lon == w[1]
        wrapped == w[2]
    IN  fix_record_outlier(self, heap, mutable, lat, wrapped_lon,
            AppendIf(wrapped, fixes, "lon_wrapped"),
            changes)

\* Lines 80-85: the longitude wrap.
fix_record_wrap(self, heap, mutable, lat, lon, fixes, changes) ==
    LET w == wrap_longitude(lon)
        wrapped_lon == w[1]
        wrapped == w[2]
    IN  fix_record_outlier(self, heap, mutable, lat, wrapped_lon,
            AppendIf(wrapped, fixes, "lon_wrapped"),
            PutIf(wrapped, changes, self.lon_field, <<lon, wrapped_lon>>))

\* Lines 72-78: the axis swap.
fix_record_swap(self, heap, mutable, lat, lon, fixes, changes) ==
    LET swapped == looks_swapped(lat, lon)
        lat1 == IF swapped THEN lon ELSE lat
        lon1 == IF swapped THEN lat ELSE lon
    IN  fix_record_wrap(self, heap, mutable, lat1, lon1,
            AppendIf(swapped, fixes, "swapped_axes"),
            PutIf(swapped,
                  PutIf(swapped, changes, self.lat_field,
                        <<Get(heap[1], self.lat_field), lat1>>),
                  self.lon_field, <<Get(heap[1], self.lon_field), lon1>>))

\* A variant of the partial fill that takes the wrong fallback component for
\* a missing latitude.
fix_record_fill_wrong_component(self, heap, mutable, lat, lon, fixes, changes) ==
    LET lat1 == IF lat = None THEN self.fallback[2] ELSE lat
        lon1 == IF lon = None THEN self.fallback[2] ELSE lon
    IN  fix_record_swap(self, heap, mutable, lat1, lon1,
            AppendIf(lon = None, AppendIf(lat = None, fixes, "lat_filled"), "lon_filled"),
            PutIf(lon = None,
                  PutIf(lat = None, changes, self.lat_field,
                        <<Get(heap[1], self.lat_field), lat1>>),
                  self.lon_field, <<Get(heap[1], self.lon_field), lon1>>))

\* Lines 62-70: the partial fill.
fix_record_fill(self, heap, mutable, lat, lon, fixes, changes) ==
    LET lat1 == IF lat = None THEN self.fallback[1] ELSE lat
        lon1 == IF lon = None THEN self.fallback[2] ELSE lon
    IN  fix_record_swap(self, heap, mutable, lat1, lon1,
            AppendIf(lon = None, AppendIf(lat = None, fixes, "lat_filled"), "lon_filled"),
            PutIf(lon = None,
                  PutIf(lat = None, changes, self.lat_field,
                        <<Get(heap[1], self.lat_field), lat1>>),
                  self.lon_field, <<Get(heap[1], self.lon_field), lon1>>))

\* The both-missing step with the writes of line 56 done: lines 57-60.
fix_record_missing_filled(self, heap, mutable, fixes, changes) ==
    LET ret == DictCopy(heap, mutable)
    IN  FixResult(ret.heap, ret.addr, Append(fixes, "filled_missing"),
            Put(Put(changes, self.lat_field,
                    <<Get(heap[1], self.lat_field), self.fallback[1]>>),
                self.lon_field, <<Get(heap[1], self.lon_field), self.fallback[2]>>))

\* A variant of the both-missing step that fills the pair and goes on with
\* the chain instead of returning.
fix_record_missing_no_return(self, heap, mutable, fixes, changes) ==
    fix_record_fill(self, heap, mutable, self.fallback[1], self.fallback[2],
                    Append(fixes, "filled_missing"), changes)

\* Lines 54-60: both values missing, the early return.
fix_record_missing(self, heap, mutable, fixes, changes) ==
    fix_record_missing_filled(self,
        SetItem(SetItem(heap, mutable, self.lat_field, self.fallback[1]),
                mutable, self.lon_field, self.fallback[2]),
        mutable, fixes, changes)

\* Lines 47-60 onwards, given what _coerce_value returned for each value.
fix_record_coerced(self, heap, mutable, cl, co) ==
    LET fixes == cl.notes \o co.notes
        changes == PutIf(co.changed,
                         PutIf(cl.changed, EmptyDict, self.lat_field,
                               <<Get(heap[1], self.lat_field), cl.value>>),
                         self.lon_field, <<Get(heap[1], self.lon_field), co.value>>)
    IN  IF cl.raised \/ co.raised
        THEN Raised(heap)
        ELSE IF cl.value = None /\ co.value = None
             THEN fix_record_missing(self, heap, mutable, fixes, changes)
             ELSE fix_record_fill(self, heap, mutable, cl.value, co.value, fixes, changes)

\* Lines 36-46, given the copy dict(record) made.
fix_record_copy(self, m) ==
    fix_record_coerced(self, m.heap, m.addr,
        coerce_value(Get(m.heap[m.addr], self.lat_field)),
        coerce_value(Get(m.heap[m.addr], self.lon_field)))

\* fix_record(record), the whole chain.
fix_record(self, record) == fix_record_copy(self, DictCopy(<<record>>, 1))

\* A variant of fix_all that builds its list back to front.
RECURSIVE fix_all_from_prepending(_, _, _, _, _)
fix_all_step_prepending(self, rs, i, acc, callers, r) ==
    IF r.raised
    THEN [raised |-> TRUE, results |-> <<>>, callers |-> [callers EXCEPT ![i] = r.caller]]
    ELSE fix_all_from_prepending(self, rs, i + 1, <<r>> \o acc,
                                 [callers EXCEPT ![i] = r.caller])

fix_all_from_prepending(self, rs, i, acc, callers) ==
    IF i > Len(rs)
    THEN [raised |-> FALSE, results |-> acc, callers |-> callers]
    ELSE fix_all_step_prepending(self, rs, i, acc, callers, fix_record(self, rs[i]))

\* fix_all(rows): the list comprehension, row by row; an exception in one row
\* leaves the call with no list at all.  callers is what the call left of the
\* caller's rows it got to.
RECURSIVE fix_all_from(_, _, _, _, _)
\* One element of the comprehension, r being fix_record's outcome for row i.
fix_all_step(self, rs, i, acc, callers, r) ==
    IF r.raised
    THEN [raised |-> TRUE, results |-> <<>>, callers |-> [callers EXCEPT ![i] = r.caller]]
    ELSE fix_all_from(self, rs, i + 1, Append(acc, r), [callers EXCEPT ![i] = r.caller])

fix_all_from(self, rs, i, acc, callers) ==
    IF i > Len(rs)
    THEN [raised |-> FALSE, results |-> acc, callers |-> callers]
    ELSE fix_all_step(self, rs, i, acc, callers, fix_record(self, rs[i]))

fix_all(self, rs) == fix_all_from(self, rs, 1, <<>>, rs)

---------------------------------------------------------------------------
(* GeometryValidator *)

ValidationIssue(index, field, message) ==
    [index |-> index, field |-> field, message |-> message]

\* _within_range: [raised, ok].  TypeError and ValueError mean "not within
\* range"; the OverflowError of float() is not caught.
within_range(value, lower, upper) ==
    LET f == Float(value)
    IN  CASE f.st = "ok" -> [raised |-> FALSE, ok |-> FLe(lower, f.v) /\ FLe(f.v, upper)]
          [] f.st = "value_error" -> [raised |-> FALSE, ok |-> FALSE]
          [] OTHER -> [raised |-> TRUE, ok |-> FALSE]

RECURSIVE NatChars(_)
NatChars(n) == IF n < 10 THEN <<Digits[n + 1]>> ELSE Append(NatChars(n \div 10), Digits[(n % 10) + 1])

\* f"{value}": text as it is, a number in halves as Python prints the float
\* (an int prints without the ".0", which has the same decimals).
Format(value) ==
    CASE value.k = "str" -> value.s
      [] value.k = "num" ->
            LET mag == IF value.n < 0 THEN -value.n ELSE value.n
            IN  (IF value.n < 0 THEN <<"-">> ELSE <<>>) \o NatChars(mag \div 2)
                \o (IF mag % 2 = 1 THEN <<".", "5">> ELSE <<".", "0">>)
      [] value.k = "nan" -> <<"n", "a", "n">>
      [] value.k = "bigint" -> <<"1", "0", "0", "0">>
      [] value.k = "list" -> <<"[", "]">>
      [] OTHER -> <<"N", "o", "n", "e">>

RECURSIVE RStripZeros(_)
RStripZeros(s) == IF s # <<>> /\ Last(s) = "0" THEN RStripZeros(Front(s)) ELSE s

\* _count_decimals
count_decimals(value) ==
    LET text == Format(value)
        dots == DotPositions(text)
        lastDot == CHOOSE i \in dots : \A j \in dots : j <= i
    IN  IF dots = {}
        THEN 0
        ELSE Len(RStripZeros(SubSeq(text, lastDot + 1, Len(text))))

\* _has_precision
has_precision(self, lat, lon) ==
    \A value \in {lat, lon} : count_decimals(value) >= self.precision.n

PrecisionMessage(precision) ==
    <<"Expected">> \o NatChars(precision.n) \o <<"decimal places">>

\* A variant of validate's loop body without the "continue" after the
\* missing-coordinate issue.
validate_row_no_continue(self, idx, row) ==
    LET lat == Get(row, self.lat_field)
        lon == Get(row, self.lon_field)
        wlat == within_range(lat, Deg(-90), Deg(90))
        wlon == within_range(lon, Deg(-180), Deg(180))
        missing == IF lat = None \/ lon = None
                   THEN <<ValidationIssue(idx, "coordinates",
                                          <<"Missing latitude or longitude">>)>>
                   ELSE <<>>
        latIssue == IF wlat.ok THEN <<>>
                    ELSE <<ValidationIssue(idx, self.lat_field, <<"Latitude outside bounds">>)>>
        lonIssue == IF wlon.ok THEN <<>>
                    ELSE <<ValidationIssue(idx, self.lon_field, <<"Longitude outside bounds">>)>>
    IN  IF wlat.raised \/ wlon.raised
        THEN [raised |-> TRUE, issues |-> <<>>]
        ELSE [raised |-> FALSE, issues |-> missing \o latIssue \o lonIssue]

\* The body of validate's loop for the row at 0-based position idx:
\* [raised, issues], the issues this row adds.
validate_row(self, idx, row) ==
    LET lat == Get(row, self.lat_field)
        lon == Get(row, self.lon_field)
        wlat == within_range(lat, Deg(-90), Deg(90))
        wlon == within_range(lon, Deg(-180), Deg(180))
        latIssue == IF wlat.ok THEN <<>>
                    ELSE <<ValidationIssue(idx, self.lat_field, <<"Latitude outside bounds">>)>>
        lonIssue == IF wlon.ok THEN <<>>
                    ELSE <<ValidationIssue(idx, self.lon_field, <<"Longitude outside bounds">>)>>
        precIssue == IF self.precision # None /\ ~has_precision(self, lat, lon)
                     THEN <<ValidationIssue(idx, "precision", PrecisionMessage(self.precision))>>
                     ELSE <<>>
    IN  IF lat = None \/ lon = None
        THEN [raised |-> FALSE,
              issues |-> <<ValidationIssue(idx, "coordinates",
                                           <<"Missing latitude or longitude">>)>>]
        ELSE IF wlat.raised \/ wlon.raised
             THEN [raised |-> TRUE, issues |-> <<>>]
             ELSE [raised |-> FALSE, issues |-> latIssue \o lonIssue \o precIssue]

RECURSIVE validate_from(_, _, _, _)
\* One turn of the loop, r being what the row at position i adds.
validate_step(self, rs, i, issues, r) ==
    IF r.raised
    THEN [raised |-> TRUE, issues |-> <<>>]
    ELSE validate_from(self, rs, i + 1, issues \o r.issues)

validate_from(self, rs, i, issues) ==
    IF i > Len(rs)
    THEN [raised |-> FALSE, issues |-> issues]
    ELSE validate_step(self, rs, i, issues, validate_row(self, i - 1, rs[i]))

\* validate(rows): [raised, issues]
validate(self, rs) == validate_from(self, rs, 1, <<>>)

\* not issues
Not(v) == [raised |-> v.raised, value |-> ~v.raised /\ v.issues = <<>>]

\* is_valid(rows): [raised, value]
is_valid(self, rs) == Not(validate(self, rs))

\* validate(fixed), fixed being the records of what fix_all returned.
validate_fixed(self, all) ==
    IF all.raised
    THEN [raised |-> TRUE, issues |-> <<>>, callers |-> all.callers]
    ELSE [callers |-> all.callers] @@
         validate(self.validator, [i \in 1..Len(all.results) |-> all.results[i].record])

\* CoordinateFixer.validate_after_fix(rows): [raised, issues, callers]
validate_after_fix(self, rs) == validate_fixed(self, fix_all(self, rs))

---------------------------------------------------------------------------
(* Construction *)

\* GeometryValidator.__init__
GeometryValidator(lat_field, lon_field, precision) ==
    [lat_field |-> lat_field, lon_field |-> lon_field, precision |-> precision]

\* CoordinateFixer.__init__
CoordinateFixer(lat_field, lon_field, fallback, clip_flag, max_abs) ==
    [lat_field |-> lat_field, lon_field |-> lon_field, fallback |-> fallback,
     clip |-> clip_flag, max_abs |-> max_abs,
     validator |-> GeometryValidator(lat_field, lon_field, None)]

---------------------------------------------------------------------------
(* Inputs *)

\* The longest batch of rows a caller passes.
MaxRows == 2

\* Marks a key the record does not have.
Absent == V("absent", 0, <<>>)

\* A record with one pass-through field and the coordinate fields it has.
Row(lat, lon) ==
    [key \in {"name"} \cup (IF lat = Absent THEN {} ELSE {"lat"})
                      \cup (IF lon = Absent THEN {} ELSE {"lon"}) |->
        CASE key = "lat" -> lat
          [] key = "lon" -> lon
          [] OTHER -> Str(<<"a">>)]

Texts ==
    { <<" ", "1", "2", ",", "5", " ">>,   \* " 12,5 "
      <<"2", "0", "0", "s">>,             \* "200s"
      <<"n", "a", "n", "N">>,             \* "nanN"
      <<"a", "b", "c">>,                  \* "abc"
      <<>> }                              \* ""

Numbers ==
    {Deg(60), Deg(100), Deg(200), Deg(350), Deg(-200), Deg(1000), Num(25)}

CoordValues == {None, Absent, NaN, BigInt, List} \cup Numbers \cup {Str(s) : s \in Texts}

Records == {Row(lat, lon) : lat, lon \in CoordValues}

BatchRecords ==
    { Row(Deg(95), Deg(10)), Row(Deg(20), None), Row(Absent, Deg(200)),
      Row(Str(<<"a", "b", "c">>), Num(25)), Row(BigInt, Deg(0)) }

Batches == UNION {[1..n -> BatchRecords] : n \in 0..MaxRows}

Inputs == {<<r>> : r \in Records} \cup Batches

Fallbacks == {<<Deg(42), Deg(-71)>>, <<Deg(100), Deg(200)>>}

MaxAbsValues == {None, Deg(50), Deg(500)}

Precisions == {None, PInt(1), PInt(2)}

Fixers ==
    {CoordinateFixer("lat", "lon", fb, c, m) :
        fb \in Fallbacks, c \in BOOLEAN, m \in MaxAbsValues}

Validators == {GeometryValidator("lat", "lon", p) : p \in Precisions}

---------------------------------------------------------------------------
(* The state machine: a caller holding a fixer, a validator and some rows  *)
(* calls the operations in any order.                                      *)

\* The caller constructs the two objects and reads its rows.  (The two objects
\* do not interact, so one of them is constructed with its defaults.)
Init ==
    /\ \/ /\ fixer \in Fixers
          /\ validator = GeometryValidator("lat", "lon", None)
       \/ /\ fixer = CoordinateFixer("lat", "lon", <<Deg(0), Deg(0)>>, TRUE, None)
          /\ validator \in Validators
    /\ rows \in Inputs
    /\ out = [op |-> "none"]

FixRecordCall ==
    \E i \in 1..Len(rows) :
        LET ret == fix_record(fixer, rows[i])
        IN  /\ out' = [op |-> "fix_record", arg |-> rows[i], ret |-> ret]
            /\ rows' = [rows EXCEPT ![i] = ret.caller]
            /\ UNCHANGED <<fixer, validator>>

FixAllCall ==
    LET ret == fix_all(fixer, rows)
    IN  /\ out' = [op |-> "fix_all", arg |-> rows, ret |-> ret]
        /\ rows' = ret.callers
        /\ UNCHANGED <<fixer, validator>>

ValidateAfterFixCall ==
    LET ret == validate_after_fix(fixer, rows)
    IN  /\ out' = [op |-> "validate_after_fix", arg |-> rows, ret |-> ret]
        /\ rows' = ret.callers
        /\ UNCHANGED <<fixer, validator>>

ValidateCall ==
    /\ out' = [op |-> "validate", arg |-> rows, ret |-> validate(validator, rows)]
    /\ UNCHANGED <<fixer, validator, rows>>

IsValidCall ==
    /\ out' = [op |-> "is_valid", arg |-> rows, ret |-> is_valid(validator, rows)]
    /\ UNCHANGED <<fixer, validator, rows>>

Next ==
    \/ FixRecordCall
    \/ FixAllCall
    \/ ValidateAfterFixCall
    \/ ValidateCall
    \/ IsValidCall

Spec == Init /\ [][Next]_vars

---------------------------------------------------------------------------
(* The longitude wrap on its own: a caller with one row holding a float     *)
(* longitude wraps it, wraps the result again, and runs it through          *)
(* fix_record with clipping and the outlier guard off.                      *)

\* The largest magnitude of a longitude, in degrees.
MaxLon == 400

Longitudes == {Num(h) : h \in (-2 * MaxLon)..(2 * MaxLon)} \cup {NaN}

WrapInit ==
    /\ fixer = CoordinateFixer("lat", "lon", <<Deg(0), Deg(0)>>, FALSE, None)
    /\ validator = GeometryValidator("lat", "lon", None)
    /\ rows \in {<<Row(Deg(0), lon)>> : lon \in Longitudes}
    /\ out = [op |-> "none"]

\* _wrap_longitude(lon) on the longitude of a row.
WrapLongitudeCall ==
    \E i \in 1..Len(rows) :
        /\ IsFloat(Get(rows[i], fixer.lon_field))
        /\ out' = [op |-> "wrap_longitude", arg |-> Get(rows[i], fixer.lon_field),
                   ret |-> wrap_longitude(Get(rows[i], fixer.lon_field))]
        /\ UNCHANGED <<fixer, validator, rows>>

\* _wrap_longitude on what the last _wrap_longitude returned.
WrapResultCall ==
    /\ out.op = "wrap_longitude"
    /\ out' = [op |-> "wrap_longitude", arg |-> out.ret[1],
               ret |-> wrap_longitude(out.ret[1])]
    /\ UNCHANGED <<fixer, validator, rows>>

WrapNext ==
    \/ WrapLongitudeCall
    \/ WrapResultCall
    \/ FixRecordCall

WrapSpec == WrapInit /\ [][WrapNext]_vars

---------------------------------------------------------------------------
(* Vocabulary of the properties *)

\* v is a number within [lo, hi] degrees.
Within(v, lo, hi) == v.k = "num" /\ 2 * lo <= v.n /\ v.n <= 2 * hi

InLatBounds(v) == Within(v, -90, 90)

InLonBounds(v) == Within(v, -180, 180)

\* |v| as an integer number of halves, for a finite number v.
Mag(v) == IF v.n < 0 THEN -v.n ELSE v.n

\* The last call was fix_record and it returned a FixResult.
FixReturned == out.op = "fix_record" /\ ~out.ret.raised

\* The coordinate values of the record fix_record was given, as coerced.
CoercedLat == coerce_value(Get(out.arg, fixer.lat_field)).value

CoercedLon == coerce_value(Get(out.arg, fixer.lon_field)).value

Has(fixes, code) == \E i \in 1..Len(fixes) : fixes[i] = code

FallbackInBounds == InLatBounds(fixer.fallback[1]) /\ InLonBounds(fixer.fallback[2])

DefaultValidator == GeometryValidator("lat", "lon", None)

---------------------------------------------------------------------------
(* C1 *)

\* C1: whenever clipping is enabled, every record fix_record returns has its
\* latitude in [-90, 90] and its longitude in [-180, 180], on every path of
\* the chain, the both-missing early return included.
C1_ClippedResultInBounds ==
    (FixReturned /\ fixer.clip) =>
        /\ InLatBounds(out.ret.record[fixer.lat_field])
        /\ InLonBounds(out.ret.record[fixer.lon_field])

---------------------------------------------------------------------------
(* C2 *)

\* C2: for every field in the changes map fix_record returns, the first
\* component of the entry is the value the field had in the record the caller
\* supplied, whichever step wrote the entry last.
C2_ChangesKeepOriginal ==
    FixReturned =>
        \A field \in DOMAIN out.ret.changes :
            out.ret.changes[field][1] = Get(out.arg, field)

---------------------------------------------------------------------------
(* C3 *)

BothMissing(record) == Get(record, "lat") = None /\ Get(record, "lon") = None

C3_Outcome ==
    /\ out.ret.record[fixer.lat_field] = fixer.fallback[1]
    /\ out.ret.record[fixer.lon_field] = fixer.fallback[2]
    /\ out.ret.fixes = <<"filled_missing">>
    /\ is_valid(DefaultValidator, <<out.ret.record>>).value

\* C3 as stated: for every record with both coordinate fields absent or null
\* and for every fallback pair, fix_record returns the fallback pair, the fix
\* list [filled_missing], and a record the default validator finds valid.
C3_Original ==
    (out.op = "fix_record" /\ BothMissing(out.arg)) => (~out.ret.raised /\ C3_Outcome)

\* C3, amended: the same for every fallback pair that lies within the
\* canonical bounds (latitude in [-90, 90], longitude in [-180, 180]).
C3_MissingPairGetsFallback ==
    (out.op = "fix_record" /\ BothMissing(out.arg) /\ FallbackInBounds)
        => (~out.ret.raised /\ C3_Outcome)

C3_Witness ==
    /\ out.op = "fix_record" /\ BothMissing(out.arg) /\ FallbackInBounds
    /\ "lat" \notin DOMAIN out.arg
    /\ out.ret.record[fixer.lat_field] = fixer.fallback[1]

---------------------------------------------------------------------------
(* C4 *)

\* |lat| > 90 and |lat| <= 180 and |lon| <= 90, of two numbers.
SwapCondition(lat, lon) ==
    /\ lat.k = "num" /\ lon.k = "num"
    /\ Mag(lat) > 2 * 90 /\ Mag(lat) <= 2 * 180
    /\ Mag(lon) <= 2 * 90

\* The pair as the partial-missing step leaves it.
FilledLat == IF CoercedLat = None THEN fixer.fallback[1] ELSE CoercedLat

FilledLon == IF CoercedLon = None THEN fixer.fallback[2] ELSE CoercedLon

OutputSwapped ==
    /\ out.ret.record[fixer.lat_field] = CoercedLon
    /\ out.ret.record[fixer.lon_field] = CoercedLat

\* C4 as stated: when the coerced values satisfy the swap condition, under
\* any configuration, the output latitude is the input longitude, the output
\* longitude is the input latitude and swapped_axes is recorded; for every
\* other record swapped_axes is not recorded.
C4_Original ==
    FixReturned =>
        IF SwapCondition(CoercedLat, CoercedLon)
        THEN OutputSwapped /\ Has(out.ret.fixes, "swapped_axes")
        ELSE ~Has(out.ret.fixes, "swapped_axes")

\* C4, amended: when the coerced values satisfy the swap condition,
\* swapped_axes is recorded under any configuration, and the output is the
\* swapped pair provided max_abs is unset or at least |lat|; swapped_axes is
\* recorded exactly for the records that are not both-missing and whose pair
\* satisfies the condition after the partial-missing fill.
C4_SwapDetection ==
    FixReturned =>
        /\ SwapCondition(CoercedLat, CoercedLon) =>
              /\ Has(out.ret.fixes, "swapped_axes")
              /\ (fixer.max_abs = None \/ Mag(CoercedLat) <= fixer.max_abs.n)
                    => OutputSwapped
        /\ Has(out.ret.fixes, "swapped_axes") <=>
              /\ ~(CoercedLat = None /\ CoercedLon = None)
              /\ SwapCondition(FilledLat, FilledLon)

C4_Witness ==
    /\ FixReturned
    /\ SwapCondition(CoercedLat, CoercedLon)
    /\ fixer.max_abs # None /\ ~fixer.clip
    /\ Has(out.ret.fixes, "swapped_axes")
    /\ OutputSwapped

---------------------------------------------------------------------------
(* C5 *)

FixedRecords(rs) ==
    LET all == fix_all(fixer, rs)
    IN  [i \in 1..Len(all.results) |-> all.results[i].record]

\* C5: with clipping enabled and a fallback pair within the canonical bounds,
\* the records fix_all produces have no issue under the default validator:
\* validate_after_fix(rows) is empty, is_valid(fixed records) is true, and
\* the issues are those of the fixed records alone.
C5_FixedRowsValidate ==
    (out.op = "validate_after_fix" /\ fixer.clip /\ FallbackInBounds) =>
        /\ ~out.ret.raised
        /\ out.ret.issues = <<>>
        /\ Len(FixedRecords(out.arg)) = Len(out.arg)
        /\ is_valid(DefaultValidator, FixedRecords(out.arg)).value
        /\ out.ret.issues = validate(DefaultValidator, FixedRecords(out.arg)).issues

---------------------------------------------------------------------------
(* C6 *)

IssuesAt(issues, idx) == SelectSeq(issues, LAMBDA issue : issue.index = idx)

IssuesOn(issues, idx, field) ==
    SelectSeq(issues, LAMBDA issue : issue.index = idx /\ issue.field = field)

MissingCoordinate(record) == Get(record, "lat") = None \/ Get(record, "lon") = None

\* C6: for every record at position i whose latitude or longitude is absent
\* or null, the issues validate returns hold exactly one issue with index i,
\* on field "coordinates", and no bounds or precision issue for that record,
\* whatever the other field holds and whatever precision is configured.
C6_MissingShortCircuits ==
    (out.op = "validate" /\ ~out.ret.raised) =>
        \A i \in 1..Len(out.arg) :
            MissingCoordinate(out.arg[i]) =>
                IssuesAt(out.ret.issues, i - 1) =
                    <<ValidationIssue(i - 1, "coordinates",
                                      <<"Missing latitude or longitude">>)>>

C6_Witness ==
    /\ out.op = "validate" /\ ~out.ret.raised
    /\ validator.precision # None
    /\ Len(out.arg) = 2
    /\ ~MissingCoordinate(out.arg[1])
    /\ "lat" \notin DOMAIN out.arg[2]
    /\ ~InLonBounds(out.arg[2]["lon"])
    /\ Len(IssuesAt(out.ret.issues, 1)) = 1

---------------------------------------------------------------------------
(* C7 *)

\* value is, or parses as, a number within [lo, hi].
NumberWithin(value, lo, hi) == Float(value).st = "ok" /\ Within(Float(value).v, lo, hi)

IndexOrdered(issues) ==
    \A a, b \in 1..Len(issues) :
        a < b =>
            /\ issues[a].index <= issues[b].index
            /\ (issues[a].index = issues[b].index /\ issues[b].field = "lat")
                    => issues[a].field # "lon"

\* C7: for every record at position i with both coordinates present, validate
\* reports the latitude field exactly when the latitude is not a number in
\* [-90, 90] and the longitude field exactly when the longitude is not a
\* number in [-180, 180]; a value that cannot be coerced gives that one
\* bounds issue, never a "coordinates" issue and never an error, and the scan
\* goes on, the issues in index order, latitude before longitude.
C7_BoundsIssues ==
    out.op = "validate" =>
        /\ ~out.ret.raised
        /\ IndexOrdered(out.ret.issues)
        /\ \A i \in 1..Len(out.arg) :
              ~MissingCoordinate(out.arg[i]) =>
                  /\ Len(IssuesOn(out.ret.issues, i - 1, "lat")) =
                        (IF NumberWithin(out.arg[i]["lat"], -90, 90) THEN 0 ELSE 1)
                  /\ Len(IssuesOn(out.ret.issues, i - 1, "lon")) =
                        (IF NumberWithin(out.arg[i]["lon"], -180, 180) THEN 0 ELSE 1)
                  /\ IssuesOn(out.ret.issues, i - 1, "coordinates") = <<>>

---------------------------------------------------------------------------
(* C8 *)

\* C8: fix_record never mutates the record it is given: on every path the
\* caller's mapping is left with the keys and values it had, the returned
\* record is another mapping, and every field of it other than the latitude
\* and longitude fields has the value it has in the input.
C8_InputNotMutated ==
    out.op = "fix_record" =>
        /\ out.ret.caller = out.arg
        /\ ~out.ret.raised =>
              /\ out.ret.addr # 1
              /\ DOMAIN out.ret.record
                    = (DOMAIN out.arg) \cup {fixer.lat_field, fixer.lon_field}
              /\ \A key \in (DOMAIN out.arg) \ {fixer.lat_field, fixer.lon_field} :
                    out.ret.record[key] = out.arg[key]

C8_Witness ==
    /\ FixReturned
    /\ BothMissing(out.arg)
    /\ "lon" \in DOMAIN out.arg
    /\ out.ret.record # out.arg
    /\ out.ret.caller = out.arg

---------------------------------------------------------------------------
(* C9 *)

\* What fix_all must return for rows rs under the configuration self: the
\* outcome of fix_record on each row, in the order of the rows.
RowwiseOutcome(self, o) ==
    o.op = "fix_all" =>
        LET each == [i \in 1..Len(o.arg) |-> fix_record(self, o.arg[i])]
        IN  IF \E i \in 1..Len(o.arg) : each[i].raised
            THEN o.ret.raised
            ELSE /\ ~o.ret.raised
                 /\ Len(o.ret.results) = Len(o.arg)
                 /\ \A i \in 1..Len(o.arg) : o.ret.results[i] = each[i]

\* C9: fix_all(rows) returns one FixResult per row, in input order, the i-th
\* being fix_record(rows[i]) whatever the other rows are and whatever calls
\* came before: no call changes the fixer's configuration.
C9_FixAllIsRowwise ==
    [][fixer' = fixer /\ RowwiseOutcome(fixer, out')]_vars

C9_Witness ==
    /\ out.op = "fix_all" /\ ~out.ret.raised
    /\ Len(out.ret.results) = 2
    /\ out.arg[1] # out.arg[2]
    /\ out.ret.results[1].fixes # out.ret.results[2].fixes
    /\ out.ret.results[2].fixes # <<>>

---------------------------------------------------------------------------
(* C10 *)

\* Exactly one coordinate is null after coercion.
OneNull == FixReturned /\ ((CoercedLat = None) # (CoercedLon = None))

WithinMaxAbs(v) == fixer.max_abs = None \/ Mag(v) <= fixer.max_abs.n

C10_Codes ==
    /\ Has(out.ret.fixes, "lat_filled") <=> CoercedLat = None
    /\ Has(out.ret.fixes, "lon_filled") <=> CoercedLon = None
    /\ ~Has(out.ret.fixes, "filled_missing")

LatFilledKeepsLon ==
    /\ out.ret.record[fixer.lat_field] = fixer.fallback[1]
    /\ out.ret.record[fixer.lon_field] = CoercedLon

LonFilledKeepsLat ==
    /\ out.ret.record[fixer.lon_field] = fixer.fallback[2]
    /\ out.ret.record[fixer.lat_field] = CoercedLat

\* C10 as stated: with exactly one coordinate null after coercion, lat_filled
\* or lon_filled is recorded for that side (never filled_missing), and when
\* the surviving value and the fallback component are within the canonical
\* bounds the returned record holds the fallback component on the missing
\* axis and the surviving value on the other.
C10_Original ==
    OneNull =>
        /\ C10_Codes
        /\ (CoercedLat = None /\ InLonBounds(CoercedLon) /\ InLatBounds(fixer.fallback[1]))
              => LatFilledKeepsLon
        /\ (CoercedLon = None /\ InLatBounds(CoercedLat) /\ InLonBounds(fixer.fallback[2]))
              => LonFilledKeepsLat

\* C10, amended: the same, the returned record being claimed only when
\* max_abs is unset or the surviving value's magnitude does not exceed it.
C10_PartialFill ==
    OneNull =>
        /\ C10_Codes
        /\ (/\ CoercedLat = None /\ InLonBounds(CoercedLon)
            /\ InLatBounds(fixer.fallback[1]) /\ WithinMaxAbs(CoercedLon))
              => LatFilledKeepsLon
        /\ (/\ CoercedLon = None /\ InLatBounds(CoercedLat)
            /\ InLonBounds(fixer.fallback[2]) /\ WithinMaxAbs(CoercedLat))
              => LonFilledKeepsLat

C10_Witness ==
    /\ OneNull
    /\ CoercedLat = None /\ Get(out.arg, "lat") # None
    /\ InLonBounds(CoercedLon) /\ InLatBounds(fixer.fallback[1])
    /\ fixer.max_abs # None /\ WithinMaxAbs(CoercedLon)
    /\ LatFilledKeepsLon

---------------------------------------------------------------------------
(* C11 *)

\* fix_record returned after running the chain past the both-missing step.
ChainRan == FixReturned /\ ~(CoercedLat = None /\ CoercedLon = None)

\* The pair as the swap step leaves it.
SwappedLat == IF SwapCondition(FilledLat, FilledLon) THEN FilledLon ELSE FilledLat

SwappedLon == IF SwapCondition(FilledLat, FilledLon) THEN FilledLat ELSE FilledLon

\* The longitude as the wrap step leaves it.
WrappedLon == wrap_longitude(SwappedLon)[1]

\* max_abs is configured and the magnitude of v exceeds it.
Exceeds(v) == fixer.max_abs # None /\ v.k = "num" /\ Mag(v) > fixer.max_abs.n

\* What the clip step, when enabled, makes of v.
ClippedIfEnabled(v, lo, hi) == IF fixer.clip THEN clip(v, Deg(lo), Deg(hi)) ELSE v

\* C11: when the chain reaches the outlier guard, each axis is judged on its
\* own: lat_outlier (lon_outlier) is recorded exactly when max_abs is
\* configured and the magnitude of the latitude (longitude) as swap and wrap
\* left it exceeds max_abs, the value handed on to the clip step is then that
\* axis's fallback component, and otherwise the value is handed on unchanged;
\* with max_abs unset no outlier code is ever recorded.
C11_OutlierGuard ==
    /\ ChainRan =>
          /\ Has(out.ret.fixes, "lat_outlier") <=> Exceeds(SwappedLat)
          /\ Has(out.ret.fixes, "lon_outlier") <=> Exceeds(WrappedLon)
          /\ out.ret.record[fixer.lat_field] =
                ClippedIfEnabled(IF Exceeds(SwappedLat) THEN fixer.fallback[1] ELSE SwappedLat,
                                 -90, 90)
          /\ out.ret.record[fixer.lon_field] =
                ClippedIfEnabled(IF Exceeds(WrappedLon) THEN fixer.fallback[2] ELSE WrappedLon,
                                 -180, 180)
    /\ (FixReturned /\ fixer.max_abs = None) =>
          /\ ~Has(out.ret.fixes, "lat_outlier")
          /\ ~Has(out.ret.fixes, "lon_outlier")

C11_Witness ==
    /\ ChainRan
    /\ fixer.max_abs # None
    /\ SwappedLat.k = "num" /\ SwappedLat.n < 0
    /\ Has(out.ret.fixes, "lat_outlier")
    /\ ~Has(out.ret.fixes, "lon_outlier")
    /\ out.ret.record[fixer.lon_field] = WrappedLon

---------------------------------------------------------------------------
(* C12 *)

\* x is a number outside [-180, 180] but within [-360, 360].
NeedsWrap(x) == x.k = "num" /\ ~InLonBounds(x) /\ Within(x, -360, 360)

\* ((x + 180) mod 360) - 180, in halves.
WrapFormula(x) == Num(((x.n + 2 * 180) % (2 * 360)) - 2 * 180)

\* C12: for every longitude x the wrap of wrap(x) is wrap(x) and does not
\* fire again: for x outside [-180, 180] but within [-360, 360] wrap(x) is
\* ((x + 180) mod 360) - 180, lies in [-180, 180] and counts as wrapped, for
\* every other x wrap(x) is x and does not count as wrapped; fix_record
\* records lon_wrapped exactly in the first case.
C12_WrapIdempotent ==
    /\ out.op = "wrap_longitude" =>
          /\ wrap_longitude(out.ret[1]) = <<out.ret[1], FALSE>>
          /\ IF NeedsWrap(out.arg)
             THEN out.ret = <<WrapFormula(out.arg), TRUE>> /\ InLonBounds(out.ret[1])
             ELSE out.ret = <<out.arg, FALSE>>
    /\ ChainRan =>
          /\ Has(out.ret.fixes, "lon_wrapped") <=> NeedsWrap(SwappedLon)
          /\ NeedsWrap(SwappedLon) => WrappedLon = WrapFormula(SwappedLon)

\* The wrap of a wrapped value: the argument is no longer the row's longitude.
C12_Witness ==
    /\ out.op = "wrap_longitude"
    /\ NeedsWrap(Get(rows[1], "lon")) /\ Get(rows[1], "lon").n < 0
    /\ out.arg = WrapFormula(Get(rows[1], "lon"))
    /\ out.ret = <<out.arg, FALSE>>

---------------------------------------------------------------------------
(* C13 *)

\* v is present but float() does not make a number of it.
Unparsable(v) == v # None /\ (coerce_value(v).raised \/ coerce_value(v).value = None)

\* The coercion codes of a value that does not parse.
FailedNotes(v) ==
    IF v.k = "str" THEN <<"coerced_from_string", "coerce_failed">> ELSE <<"coerce_failed">>

\* The codes recorded after the coercion step.
LaterCodes(fixes) ==
    SelectSeq(fixes, LAMBDA code : code \notin {"coerced_from_string", "coerce_failed"})

\* The same call with the field set to null gives the same coordinates and
\* the same codes after coercion.
SameAsNull(field) ==
    LET alt == fix_record(fixer, Put(out.arg, field, None))
    IN  /\ ~alt.raised
        /\ alt.record[fixer.lat_field] = out.ret.record[fixer.lat_field]
        /\ alt.record[fixer.lon_field] = out.ret.record[fixer.lon_field]
        /\ LaterCodes(alt.fixes) = LaterCodes(out.ret.fixes)

\* C13: a coordinate value that is present but does not parse as a number
\* never makes fix_record fail: the call returns, the coercion codes of the
\* value are coerce_failed, after coerced_from_string for text, at the value's
\* place in the fix list, and the returned coordinates and the codes after
\* coercion are those of the same record with that field null.
C13_UnparsableIsNull ==
    out.op = "fix_record" =>
        /\ Unparsable(Get(out.arg, fixer.lat_field)) =>
              /\ ~out.ret.raised
              /\ SubSeq(out.ret.fixes, 1, Len(FailedNotes(Get(out.arg, fixer.lat_field))))
                    = FailedNotes(Get(out.arg, fixer.lat_field))
              /\ SameAsNull(fixer.lat_field)
        /\ Unparsable(Get(out.arg, fixer.lon_field)) =>
              /\ ~out.ret.raised
              /\ SubSeq(out.ret.fixes,
                        Len(coerce_value(Get(out.arg, fixer.lat_field)).notes) + 1,
                        Len(coerce_value(Get(out.arg, fixer.lat_field)).notes)
                            + Len(FailedNotes(Get(out.arg, fixer.lon_field))))
                    = FailedNotes(Get(out.arg, fixer.lon_field))
              /\ SameAsNull(fixer.lon_field)

---------------------------------------------------------------------------
(* C14 *)

\* The codes of the steps after the both-missing step, in chain order.
LaterTokens ==
    <<"lat_filled", "lon_filled", "swapped_axes", "lon_wrapped",
      "lat_outlier", "lon_outlier", "lat_clipped", "lon_clipped">>

TokenPosition(code) == CHOOSE k \in 1..Len(LaterTokens) : LaterTokens[k] = code

\* Every code is a later token and the codes stand in chain order, so none
\* appears twice.
InChainOrder(codes) ==
    /\ \A i \in 1..Len(codes) : \E k \in 1..Len(LaterTokens) : LaterTokens[k] = codes[i]
    /\ \A i, j \in 1..Len(codes) :
          i < j => TokenPosition(codes[i]) < TokenPosition(codes[j])

\* The coercion codes of the call: the latitude's, then the longitude's.
CoercionCodes ==
    coerce_value(Get(out.arg, fixer.lat_field)).notes
        \o coerce_value(Get(out.arg, fixer.lon_field)).notes

\* The fix list after its first n codes.
CodesAfter(fixes, n) == SubSeq(fixes, n + 1, Len(fixes))

\* C14: the fix list fix_record returns is the coercion codes (latitude's,
\* then longitude's) followed either by filled_missing alone, as the last
\* token, or by a subsequence of lat_filled, lon_filled, swapped_axes,
\* lon_wrapped, lat_outlier, lon_outlier, lat_clipped, lon_clipped in that
\* order, each at most once; filled_missing comes with none of these.
C14_FixesInChainOrder ==
    FixReturned =>
        /\ Len(out.ret.fixes) >= Len(CoercionCodes)
        /\ SubSeq(out.ret.fixes, 1, Len(CoercionCodes)) = CoercionCodes
        /\ \/ CodesAfter(out.ret.fixes, Len(CoercionCodes)) = <<"filled_missing">>
           \/ InChainOrder(CodesAfter(out.ret.fixes, Len(CoercionCodes)))

C14_Witness ==
    /\ FixReturned
    /\ Has(out.ret.fixes, "coerced_from_string")
    /\ Has(out.ret.fixes, "lat_clipped")
    /\ Has(out.ret.fixes, "lon_clipped")
    /\ Len(CodesAfter(out.ret.fixes, Len(CoercionCodes))) >= 3

---------------------------------------------------------------------------
(* C15 *)

\* The coordinate fields of the call.
CoordinateFields == {fixer.lat_field, fixer.lon_field}

\* C15: in what fix_record returns, every entry of the changes map has as
\* its second component the value the field has in the returned record, and
\* every coordinate field whose returned value is not the value the caller
\* supplied (None for an absent key) has an entry.
C15_ChangesMatchRecord ==
    FixReturned =>
        /\ \A field \in DOMAIN out.ret.changes :
              out.ret.changes[field][2] = out.ret.record[field]
        /\ \A field \in CoordinateFields :
              PyNe(out.ret.record[field], Get(out.arg, field))
                  => field \in DOMAIN out.ret.changes

C15_Witness ==
    /\ FixReturned
    /\ fixer.lat_field \notin DOMAIN out.arg
    /\ Has(out.ret.fixes, "lon_wrapped")
    /\ DOMAIN out.ret.changes = CoordinateFields
    /\ out.ret.changes[fixer.lon_field][2] = out.ret.record[fixer.lon_field]
    /\ out.ret.changes[fixer.lon_field][2] # Get(out.arg, fixer.lon_field)

====
